---- MODULE Spec2Model ----
(***************************************************************************)
(* A model of the unexport command (fatih/unexport): one run of main and   *)
(* runMain over a small Go workspace.  The workspace (packages, imports,   *)
(* declarations, use sites, packages that fail to type-check) is the       *)
(* input and is drawn in Init; the actions are the successive steps of     *)
(* main/runMain.  The go/loader and importgraph libraries are modelled by  *)
(* what the command observes of them (Load, Search).                       *)
(***************************************************************************)
EXTENDS Integers, Sequences, FiniteSets, TLC

VARIABLES
    ws,               \* the workspace on which the command runs (input)
    pc,               \* position of the run inside main/runMain
    conf,             \* *config handed to runMain
    loads,            \* results of the loadProgram calls made so far
    prog,             \* program of the scoped (first) load
    possiblePackages, \* runMain's possiblePackages
    globalProg,       \* program of the full (second) load
    objects,          \* runMain's objects: exported Defs of the target
    objsToUpdate,     \* runMain's objsToUpdate
    astName,          \* ident -> id.Name in globalProg's syntax trees
    nidents,          \* runMain's nidents
    filesToUpdate,    \* runMain's filesToUpdate
    todo,             \* packages of globalProg.Imported not yet ranged over
    curFiles,         \* files of the current package not yet visited
    first,            \* runMain's first
    npkgs,            \* runMain's npkgs
    nerrs,            \* runMain's nerrs
    writes,           \* rewriteFile calls made so far, in order
    disk,             \* ident -> identifier text in the file on disk
    out,              \* lines logged by runMain and main
    ret,              \* value returned by runMain
    exitCode          \* exit status of the process (-1 while running)

vars == <<ws, pc, conf, loads, prog, possiblePackages, globalProg, objects,
          objsToUpdate, astName, nidents, filesToUpdate, todo, curFiles,
          first, npkgs, nerrs, writes, disk, out, ret, exitCode>>

---------------------------------------------------------------------------
(* Bounds of the model *)

\* largest number of use sites of the target's symbols in a workspace
MaxUses == 3

---------------------------------------------------------------------------
(* Identifier names are sequences of characters *)

Foo == <<"F", "o", "o">>
Bar == <<"B", "a", "r">>
baz == <<"b", "a", "z">>
Qux == <<"Q", "u", "x">>
Dee == <<"D", "e", "e">>

UpperToLower ==
    [c \in {"F", "B", "Q", "D"} |->
        CASE c = "F" -> "f" [] c = "B" -> "b" [] c = "Q" -> "q" [] c = "D" -> "d"]

\* strings.ToLower
ToLower(s) ==
    [i \in 1..Len(s) |->
        IF s[i] \in DOMAIN UpperToLower THEN UpperToLower[s[i]] ELSE s[i]]

\* types.Object.Exported: the name starts with an upper-case letter
Exported(obj) == Len(obj.name) > 0 /\ obj.name[1] \in DOMAIN UpperToLower

\* strings.Split(s, sep)
RECURSIVE Split(_, _)
Split(s, sep) ==
    IF \E i \in 1..Len(s) : s[i] = sep
    THEN LET i == CHOOSE k \in 1..Len(s) :
                      s[k] = sep /\ \A j \in 1..(k - 1) : s[j] # sep
         IN  <<SubSeq(s, 1, i - 1)>> \o Split(SubSeq(s, i + 1, Len(s)), sep)
    ELSE <<s>>

---------------------------------------------------------------------------
(* The workspace: packages, files, import graph *)

Target == "A"

\* the external test package the loader creates next to an initial package
XTestPath(p) == IF p = "A" THEN "A_test" ELSE "none"

\* initial packages that have an external test file (package A_test)
HasXTest(p) == p = "A"

\* direct imports of each package: B imports A, C imports B, A imports D
Imports(p) ==
    CASE p = "A" -> {"D"}
      [] p = "B" -> {"A"}
      [] p = "C" -> {"B"}
      [] p = "A_test" -> {"A"}
      [] OTHER -> {}

\* the files of a package as the loader hands them over (ImportWithTests:
\* the in-package test file is part of the package)
PkgFiles(p) ==
    CASE p = "A" -> <<"a.go", "a_test.go">>
      [] p = "A_test" -> <<"a_x_test.go">>
      [] p = "B" -> <<"b.go">>
      [] p = "C" -> <<"c.go">>
      [] p = "D" -> <<"d.go">>
      [] OTHER -> <<>>

FileSet(p) == {PkgFiles(p)[i] : i \in 1..Len(PkgFiles(p))}

AllPkgPaths == {"A", "B", "C", "D", "A_test"}

FilePkg(f) == CHOOSE p \in AllPkgPaths : f \in FileSet(p)

PackageName(p) ==
    CASE p = "A" -> <<"a">>
      [] p = "A_test" -> <<"a", "_", "t">>
      [] p = "B" -> <<"b">>
      [] p = "C" -> <<"c">>
      [] OTHER -> <<"d">>

\* packages a workspace w holds, external test package included
PkgsOf(w) == w.pkgs \cup {XTestPath(p) : p \in {q \in w.pkgs : HasXTest(q)}}

\* an identifier occurrence: the file it is in, whether it declares or
\* refers, and the declaration (package path, name) it resolves to; the
\* identifier of a package clause resolves to nothing (pkg = "")
Ident(f, role, p, n) == [file |-> f, role |-> role, pkg |-> p, name |-> n]

\* declarations of the workspace: the target's, plus Qux of B and Dee of D
DefIdents(w) ==
    {Ident("a.go", "def", "A", n) : n \in w.decls}
    \cup (IF "B" \in w.pkgs THEN {Ident("b.go", "def", "B", Qux)} ELSE {})
    \cup {Ident("d.go", "def", "D", Dee)}
    \cup {Ident(f, "def", "", PackageName(FilePkg(f))) :
             f \in UNION {FileSet(p) : p \in PkgsOf(w)}}

\* use sites: the chosen uses of the target's symbols, and a.go's use of Dee
UseIdents(w) == w.uses \cup {Ident("a.go", "use", "D", Dee)}

Idents(w) == DefIdents(w) \cup UseIdents(w)

\* the use sites a workspace may hold: an exported name of the target in any
\* file of a package that reaches the target, an unexported one inside A
PossibleUses(pkgs, decls) ==
    {Ident(f, "use", "A", n) :
        f \in UNION {FileSet(p) : p \in (pkgs \ {"D"}) \cup {"A_test"}},
        n \in decls}
    \ {id \in {Ident(f, "use", "A", n) :
                  f \in UNION {FileSet(p) : p \in AllPkgPaths}, n \in decls} :
           FilePkg(id.file) # "A" /\ ~Exported(id)}

Workspaces ==
    {[pkgs |-> {"A", "D"} \cup imp, decls |-> d, uses |-> u, broken |-> b] :
        imp \in {{}, {"B"}, {"B", "C"}},
        d \in {{baz}, {Foo, baz}, {Foo, Bar, baz}},
        u \in SUBSET PossibleUses({"A", "B", "C", "D"}, {Foo, Bar, baz}),
        b \in {{}, {"A"}, {"B"}}}

ValidWorkspace(w) ==
    /\ w.uses \subseteq PossibleUses(w.pkgs, w.decls)
    /\ Cardinality(w.uses) <= MaxUses
    /\ w.broken \subseteq w.pkgs

---------------------------------------------------------------------------
(* go/loader and importgraph, as the command observes them *)

NoProg == [load |-> 0, Imported |-> {}, Created |-> {}, AllPackages |-> {}]

NilObj == [load |-> 0, pkg |-> "", name |-> <<>>]

\* packages reached from S along imports (the dependencies the loader pulls in)
RECURSIVE ImportClosure(_)
ImportClosure(S) ==
    LET T == S \cup UNION {Imports(p) : p \in S}
    IN  IF T = S THEN S ELSE ImportClosure(T)

\* importgraph.Build's reverse graph, then Graph.Search from one root: the
\* root and every package of the workspace that transitively imports it
RECURSIVE Search(_)
Search(S) ==
    LET T == S \cup {q \in ws.pkgs : Imports(q) \cap S # {}}
    IN  IF T = S THEN S ELSE Search(T)

\* loader.Config.Load with AllowErrors false: no initial package, or a
\* package of the load that does not exist or does not type-check, is an error
LoadFails(paths) ==
    \/ paths = {}
    \/ \E p \in ImportClosure(paths) : p \notin ws.pkgs \/ p \in ws.broken

\* loadProgram: ImportWithTests of every path, then Load.  Imported holds the
\* initial packages, Created their external test packages, AllPackages both
\* and the dependencies; load numbers the load the objects belong to
loadProgram(n, paths) ==
    IF LoadFails(paths)
    THEN [prog |-> NoProg, err |-> TRUE]
    ELSE LET created == {XTestPath(p) : p \in {q \in paths : HasXTest(q)}}
         IN  [prog |-> [load |-> n,
                        Imported |-> paths,
                        Created |-> created,
                        AllPackages |-> ImportClosure(paths) \cup created],
              err |-> FALSE]

\* the types.Object an identifier resolves to in program P (nil for the
\* identifier of a package clause); objects of different loads differ
ObjectOf(P, id) ==
    IF id.pkg = "" THEN NilObj
    ELSE [load |-> P.load, pkg |-> id.pkg, name |-> id.name]

\* PackageInfo.Defs and PackageInfo.Uses of package p in program P
Defs(P, p) ==
    {<<id, ObjectOf(P, id)>> : id \in {d \in DefIdents(ws) : d.file \in FileSet(p)}}

Uses(P, p) ==
    {<<id, ObjectOf(P, id)>> : id \in {u \in UseIdents(ws) : u.file \in FileSet(p)}}

\* a file list that holds every file twice
InfoFilesRepeated(p) == PkgFiles(p) \o PkgFiles(p)

\* PackageInfo.Files of package p
InfoFiles(p) == PkgFiles(p)

---------------------------------------------------------------------------
(* Helpers of runMain *)

\* exportedObjects: the entries of info.Defs whose object is not nil and exported
exportedObjects(P, p) ==
    {d \in Defs(P, p) : d[2] # NilObj /\ Exported(d[2])}

\* findExportedObjects: the package of prog.AllPackages with the given path
findExportedObjects(P, path) ==
    UNION {exportedObjects(P, p) : p \in {q \in P.AllPackages : q = path}}

\* hasUse: some entry of info.Uses is the object
hasUse(P, p, obj) == \E u \in Uses(P, p) : u[2] = obj

\* a use inside the object's own package does not count as a use
filterObjectsOwnUseIgnored(P, p, exported) ==
    {e \in exported : p = e[2].pkg \/ ~hasUse(P, p, e[2])}

\* filterObjects: the exported objects not in use by the given package
filterObjects(P, p, exported) ==
    {e \in exported : ~hasUse(P, p, e[2])}

\* the candidates are taken from the scoped load
AnalyzedProgramScoped(scoped, full) == scoped

\* the program runMain re-derives the exported objects from: globalProg
AnalyzedProgram(scoped, full) == full

\* every file of a package is rewritten
ToBeWrittenAlways(f, files) == TRUE

\* if filesToUpdate[tokenFile]: the file holds a renamed identifier
ToBeWritten(f, files) == f \in files

\* the summary is left out when a write failed
SummaryOutputUnlessFailed(lines, n, nf, np, ne) ==
    IF ne > 0 THEN lines
    ELSE Append(lines, [kind |-> "summary", nidents |-> n, nfiles |-> nf,
                        npkgs |-> np])

\* log.Printf of the summary line, whatever the number of failed writes
SummaryOutput(lines, n, nf, np, ne) ==
    Append(lines, [kind |-> "summary", nidents |-> n, nfiles |-> nf,
                   npkgs |-> np])

\* the error of a loadProgram call is dropped
AfterLoadIgnoringErr(err, next) == next

\* if err != nil { return err } after a loadProgram call
AfterLoad(err, next) == IF err THEN "return" ELSE next

\* entries of info.Defs and info.Uses of package p whose object is to be updated
UpdatedSites(P, p, upd) ==
    {d \in Defs(P, p) \cup Uses(P, p) : d[2] \in upd}

\* the number of nidents++ executed while ranging over the packages in S
RECURSIVE CountUpdates(_, _, _)
CountUpdates(P, S, upd) ==
    IF S = {} THEN 0
    ELSE LET p == CHOOSE q \in S : TRUE
         IN  Cardinality({d \in Defs(P, p) : d[2] \in upd})
             + Cardinality({u \in Uses(P, p) : u[2] \in upd})
             + CountUpdates(P, S \ {p}, upd)

\* the loop over the files stops at the first failed write
RestAfterWriteStopping(rest, ok) == IF ok THEN rest ELSE <<>>

\* the files left to visit after a rewriteFile call: an error is logged and
\* counted, the loop goes on
RestAfterWrite(rest, ok) == rest

\* the error runMain returns after the summary
RunMainResult(n) == IF n > 0 THEN "failed to rewrite" ELSE "nil"

---------------------------------------------------------------------------
(* Initial state *)

NoConf == [importPath |-> "", identifiers |-> <<>>, dryRun |-> FALSE,
           verbose |-> FALSE]

Init ==
    /\ ws \in {w \in Workspaces : ValidWorkspace(w)}
    /\ pc = "main"
    /\ conf = NoConf
    /\ loads = <<>>
    /\ prog = NoProg
    /\ possiblePackages = {}
    /\ globalProg = NoProg
    /\ objects = {}
    /\ objsToUpdate = {}
    /\ astName = <<>>
    /\ nidents = 0
    /\ filesToUpdate = {}
    /\ todo = {}
    /\ curFiles = <<>>
    /\ first = TRUE
    /\ npkgs = 0
    /\ nerrs = 0
    /\ writes = <<>>
    /\ disk = [id \in Idents(ws) |-> id.name]
    /\ out = <<>>
    /\ ret = "none"
    /\ exitCode = -1

---------------------------------------------------------------------------
(* Steps of main and runMain *)

\* values of the -identifier flag: not given, or the single name Foo
IdentifierFlags == {<<>>, Foo}

\* main: parse the flags and build the config
Main ==
    /\ pc = "main"
    /\ \E path \in {"", Target}, ident \in IdentifierFlags, dry \in BOOLEAN :
          conf' = [importPath |-> path, identifiers |-> Split(ident, ","),
                   dryRun |-> dry, verbose |-> FALSE]
    /\ pc' = "runMain"
    /\ UNCHANGED <<ws, loads, prog, possiblePackages, globalProg, objects,
                   objsToUpdate, astName, nidents, filesToUpdate, todo,
                   curFiles, first, npkgs, nerrs, writes, disk, out, ret,
                   exitCode>>

\* runMain: no import path given
NoImportPath ==
    /\ pc = "runMain"
    /\ conf.importPath = ""
    /\ ret' = "import path of the package must be given"
    /\ pc' = "return"
    /\ UNCHANGED <<ws, conf, loads, prog, possiblePackages, globalProg,
                   objects, objsToUpdate, astName, nidents, filesToUpdate,
                   todo, curFiles, first, npkgs, nerrs, writes, disk, out,
                   exitCode>>

\* runMain: load the target package only
ScopedLoad ==
    /\ pc = "runMain"
    /\ conf.importPath # ""
    /\ LET r == loadProgram(1, {conf.importPath})
       IN  /\ prog' = r.prog
           /\ loads' = Append(loads, IF r.err THEN "err" ELSE "ok")
           /\ ret' = IF r.err THEN "load error" ELSE ret
           /\ pc' = AfterLoad(r.err, "graph")
    /\ UNCHANGED <<ws, conf, possiblePackages, globalProg, objects,
                   objsToUpdate, astName, nidents, filesToUpdate, todo,
                   curFiles, first, npkgs, nerrs, writes, disk, out,
                   exitCode>>

\* runMain: build the import graph and collect the packages that reach the
\* package of an exported object of the target
PossiblePackages ==
    /\ pc = "graph"
    /\ possiblePackages' =
          UNION {Search({e[2].pkg}) : e \in findExportedObjects(prog, conf.importPath)}
    /\ pc' = "fullLoad"
    /\ UNCHANGED <<ws, conf, loads, prog, globalProg, objects, objsToUpdate,
                   astName, nidents, filesToUpdate, todo, curFiles, first,
                   npkgs, nerrs, writes, disk, out, ret, exitCode>>

\* runMain: reload the program with all possible packages
FullLoad ==
    /\ pc = "fullLoad"
    /\ LET r == loadProgram(2, possiblePackages)
       IN  /\ globalProg' = r.prog
           /\ loads' = Append(loads, IF r.err THEN "err" ELSE "ok")
           /\ ret' = IF r.err THEN "load error" ELSE ret
           /\ pc' = AfterLoad(r.err, "analyze")
           /\ astName' = [id \in {i \in Idents(ws) :
                                     FilePkg(i.file) \in r.prog.AllPackages}
                            |-> id.name]
    /\ UNCHANGED <<ws, conf, prog, possiblePackages, objects, objsToUpdate,
                   nidents, filesToUpdate, todo, curFiles, first, npkgs,
                   nerrs, writes, disk, out, exitCode>>

\* runMain: the exported objects of the target in the full load, and the
\* objects some imported package does not use
Analyze ==
    /\ pc = "analyze"
    /\ objects' = findExportedObjects(AnalyzedProgram(prog, globalProg),
                                       conf.importPath)
    /\ objsToUpdate' =
          {e[2] : e \in UNION {filterObjects(globalProg, p, objects') :
                                  p \in globalProg.Imported}}
    /\ pc' = "rename"
    /\ UNCHANGED <<ws, conf, loads, prog, possiblePackages, globalProg,
                   astName, nidents, filesToUpdate, todo, curFiles, first,
                   npkgs, nerrs, writes, disk, out, ret, exitCode>>

\* runMain: lower-case every Defs and Uses identifier of the imported
\* packages whose object is to be updated, count them, note their files
Rename ==
    /\ pc = "rename"
    /\ LET sites == UNION {UpdatedSites(globalProg, p, objsToUpdate) :
                              p \in globalProg.Imported}
       IN  /\ nidents' = nidents
                 + CountUpdates(globalProg, globalProg.Imported, objsToUpdate)
           /\ astName' = [id \in DOMAIN astName |->
                            IF \E d \in sites : d[1] = id
                            THEN ToLower((CHOOSE d \in sites : d[1] = id)[2].name)
                            ELSE astName[id]]
           /\ filesToUpdate' = {d[1].file : d \in sites}
    /\ todo' = globalProg.Imported
    /\ pc' = "write"
    /\ UNCHANGED <<ws, conf, loads, prog, possiblePackages, globalProg,
                   objects, objsToUpdate, curFiles, first, npkgs, nerrs,
                   writes, disk, out, ret, exitCode>>

\* runMain: range over globalProg.Imported (a map: any order), next package
NextPackage ==
    /\ pc = "write"
    /\ curFiles = <<>>
    /\ \E p \in todo :
          /\ curFiles' = InfoFiles(p)
          /\ todo' = todo \ {p}
    /\ first' = TRUE
    /\ UNCHANGED <<ws, pc, conf, loads, prog, possiblePackages, globalProg,
                   objects, objsToUpdate, astName, nidents, filesToUpdate,
                   npkgs, nerrs, writes, disk, out, ret, exitCode>>

\* runMain: a file of the current package that is not to be updated
SkipFile ==
    /\ pc = "write"
    /\ curFiles # <<>>
    /\ ~ToBeWritten(Head(curFiles), filesToUpdate)
    /\ curFiles' = Tail(curFiles)
    /\ UNCHANGED <<ws, pc, conf, loads, prog, possiblePackages, globalProg,
                   objects, objsToUpdate, astName, nidents, filesToUpdate,
                   todo, first, npkgs, nerrs, writes, disk, out, ret,
                   exitCode>>

\* runMain and rewriteFile: a file to be updated is printed from its syntax
\* tree and written; the write succeeds or fails (then the file is as before)
RewriteFile ==
    /\ pc = "write"
    /\ curFiles # <<>>
    /\ ToBeWritten(Head(curFiles), filesToUpdate)
    /\ LET f == Head(curFiles)
       IN  \E ok \in BOOLEAN :
              /\ writes' = Append(writes, [file |-> f, ok |-> ok])
              /\ disk' = [id \in DOMAIN disk |->
                            IF ok /\ id.file = f THEN astName[id] ELSE disk[id]]
              /\ nerrs' = IF ok THEN nerrs ELSE nerrs + 1
              /\ out' = IF ok THEN out ELSE Append(out, [kind |-> "write error", file |-> f])
              /\ curFiles' = RestAfterWrite(Tail(curFiles), ok)
    /\ npkgs' = IF first THEN npkgs + 1 ELSE npkgs
    /\ first' = FALSE
    /\ UNCHANGED <<ws, pc, conf, loads, prog, possiblePackages, globalProg,
                   objects, objsToUpdate, astName, nidents, filesToUpdate,
                   todo, ret, exitCode>>

\* runMain: the summary line and the return value
Summary ==
    /\ pc = "write"
    /\ curFiles = <<>>
    /\ todo = {}
    /\ out' = SummaryOutput(out, nidents, Cardinality(filesToUpdate), npkgs,
                            nerrs)
    /\ ret' = RunMainResult(nerrs)
    /\ pc' = "return"
    /\ UNCHANGED <<ws, conf, loads, prog, possiblePackages, globalProg,
                   objects, objsToUpdate, astName, nidents, filesToUpdate,
                   todo, curFiles, first, npkgs, nerrs, writes, disk,
                   exitCode>>

\* main: report the error of runMain and exit 1, or return
Exit ==
    /\ pc = "return"
    /\ out' = IF ret # "nil" THEN Append(out, [kind |-> "error", text |-> ret])
              ELSE out
    /\ exitCode' = IF ret # "nil" THEN 1 ELSE 0
    /\ pc' = "exit"
    /\ UNCHANGED <<ws, conf, loads, prog, possiblePackages, globalProg,
                   objects, objsToUpdate, astName, nidents, filesToUpdate,
                   todo, curFiles, first, npkgs, nerrs, writes, disk, ret>>

Next ==
    \/ Main
    \/ NoImportPath
    \/ ScopedLoad
    \/ PossiblePackages
    \/ FullLoad
    \/ Analyze
    \/ Rename
    \/ NextPackage
    \/ SkipFile
    \/ RewriteFile
    \/ Summary
    \/ Exit

Spec == Init /\ [][Next]_vars

---------------------------------------------------------------------------
(* Vocabulary of the properties *)

BothLoadsOk == loads = <<"ok", "ok">>

SomeLoadFailed == \E i \in 1..Len(loads) : loads[i] = "err"

\* the analysis has run / the renaming pass has run
Analyzed == pc \in {"rename", "write", "return", "exit"} /\ BothLoadsOk

Renamed == pc \in {"write", "return", "exit"} /\ BothLoadsOk

\* the exported symbols of the target in the full load
Candidates == {e[2] : e \in findExportedObjects(globalProg, Target)}

\* a use site of obj in a package of the full load other than its own
UsedElsewhere(obj) ==
    \E p \in globalProg.AllPackages \ {obj.pkg} : hasUse(globalProg, p, obj)

\* a use site of obj in a package the full load imported (the target or a
\* package that reaches it along imports) other than its own
UsedByImporter(obj) ==
    \E p \in globalProg.Imported \ {obj.pkg} : hasUse(globalProg, p, obj)

\* the identifier occurrences of the full-load program bound to obj
SitesOf(obj) == {id \in DOMAIN astName : ObjectOf(globalProg, id) = obj}

OrigDisk == [id \in Idents(ws) |-> id.name]

\* the names of the -identifier allowlist (the empty flag gives none)
Allowlist == {conf.identifiers[i] : i \in 1..Len(conf.identifiers)} \ {<<>>}

FailedWrites == {i \in 1..Len(writes) : ~writes[i].ok}

Attempted == {writes[i].file : i \in 1..Len(writes)}

---------------------------------------------------------------------------
(* Properties *)

\* C1: an exported symbol of the target with a use site in another package of
\* the full load (an importer of the target, direct or through a chain) is
\* not in objsToUpdate and none of its sites is renamed; if every candidate
\* is used by an importer, no file is touched.
C1_UsedElsewhereIsKept ==
    Renamed =>
        /\ \A obj \in Candidates :
              UsedByImporter(obj) =>
                 /\ obj \notin objsToUpdate
                 /\ \A id \in SitesOf(obj) : astName[id] = id.name
        /\ (\A obj \in Candidates : UsedByImporter(obj)) => filesToUpdate = {}

\* C2: with an empty allowlist, every exported symbol of the target that has
\* no use site in a loaded package other than the target is in objsToUpdate,
\* whatever its uses inside the target and however many packages are loaded.
C2_UnusedElsewhereIsPlanned ==
    (Analyzed /\ Allowlist = {}) =>
        \A obj \in Candidates : ~UsedElsewhere(obj) => obj \in objsToUpdate

\* C3: with a non-empty allowlist, every symbol of objsToUpdate is a candidate
\* named in the allowlist, and no site of a symbol outside it is renamed.
C3_PlanWithinAllowlist ==
    (Renamed /\ Allowlist # {}) =>
        /\ \A obj \in objsToUpdate : obj \in Candidates /\ obj.name \in Allowlist
        /\ \A id \in DOMAIN astName :
              id.name \notin Allowlist => astName[id] = id.name

\* C4: in a dry run no file is written: the disk is as at the start.
C4_DryRunWritesNothing ==
    conf.dryRun => (writes = <<>> /\ disk = OrigDisk)

\* C5: after the renaming pass every definition and use site, in any package
\* of the full-load program, of a symbol of objsToUpdate carries the new name.
C5_NoPartialRename ==
    Renamed =>
        \A obj \in objsToUpdate :
           \A id \in SitesOf(obj) : astName[id] = ToLower(obj.name)

\* C6: a failed load ends the run with exit status 1 and without any write;
\* a write happens only after both loads have succeeded.
C6_LoadFailureIsFatal ==
    /\ SomeLoadFailed => (writes = <<>> /\ disk = OrigDisk)
    /\ (SomeLoadFailed /\ pc = "exit") => exitCode = 1
    /\ SomeLoadFailed => pc \in {"return", "exit"}
    /\ writes # <<>> => BothLoadsOk

\* a run whose full load failed (the scoped load succeeded) has exited with 1
C6_Witness ==
    /\ pc = "exit"
    /\ loads = <<"ok", "err">>
    /\ possiblePackages # {}
    /\ exitCode = 1

\* C7: a failed write does not stop the run: when runMain returns, every file
\* of filesToUpdate has been attempted, nerrs is the number of failed writes,
\* and the run fails (exit 1) exactly when some write failed.
C7_WriteFailuresDoNotStop ==
    /\ nerrs = Cardinality(FailedWrites)
    /\ (pc \in {"return", "exit"} /\ BothLoadsOk) =>
          /\ filesToUpdate \subseteq Attempted
          /\ (ret = "failed to rewrite") <=> (FailedWrites # {})
    /\ (pc = "exit" /\ BothLoadsOk) => ((exitCode = 1) <=> (FailedWrites # {}))

\* a run where the first write failed and a later one was still made
C7_Witness ==
    /\ pc = "exit"
    /\ Len(writes) >= 2
    /\ ~writes[1].ok
    /\ writes[2].ok
    /\ exitCode = 1

\* C8: a target without exported identifiers: the full load holds the target,
\* objsToUpdate is empty, nothing is touched or written, exit status 0.
C8_NoExportsSucceeds ==
    (/\ pc = "exit"
     /\ conf.importPath = Target
     /\ ws.broken = {}
     /\ \A n \in ws.decls : ~Exported([name |-> n])) =>
        /\ exitCode = 0
        /\ Target \in globalProg.Imported
        /\ objsToUpdate = {}
        /\ filesToUpdate = {}
        /\ writes = <<>>

\* C9: nidents is the number of definition and use sites of the full-load
\* program bound to symbols of objsToUpdate; every other identifier keeps its
\* text, in the syntax trees and on disk.
C9_CountIsAllPlannedSites ==
    Renamed =>
        /\ nidents = Cardinality(UNION {SitesOf(obj) : obj \in objsToUpdate})
        /\ \A id \in DOMAIN astName :
              ObjectOf(globalProg, id) \notin objsToUpdate =>
                 (astName[id] = id.name /\ disk[id] = id.name)

\* C10: no file is written more than once in a run.
C10_FileWrittenAtMostOnce ==
    \A i, j \in 1..Len(writes) : writes[i].file = writes[j].file => i = j

\* a.go holds two renamed identifiers, was written, and two packages or more
\* were loaded
C10_Witness ==
    /\ pc = "exit"
    /\ Cardinality(globalProg.Imported) >= 2
    /\ \E i \in 1..Len(writes) : writes[i].file = "a.go" /\ writes[i].ok
    /\ Cardinality({id \in DOMAIN astName :
                       id.file = "a.go" /\ astName[id] # id.name}) >= 2

\* C11: every symbol of objsToUpdate is an exported symbol defined in the
\* target and an object of the full load; the objects handed to the reference
\* scan (objects) and to the rewrite (objsToUpdate) are never objects of the
\* scoped load.
C11_PlanFromFullLoad ==
    Analyzed =>
        /\ \A obj \in objsToUpdate :
              /\ obj.pkg = Target
              /\ Exported(obj)
              /\ obj.load = globalProg.load
              /\ obj.load # prog.load
              /\ obj \in Candidates
        /\ \A e \in objects :
              e[2].load = globalProg.load /\ e[2].load # prog.load

\* the scoped load produced exported objects of its own, and the plan holds
\* an object of the full load whose sites were renamed
C11_Witness ==
    /\ Renamed
    /\ findExportedObjects(prog, Target) # {}
    /\ \E obj \in objsToUpdate :
          \E id \in SitesOf(obj) : astName[id] = ToLower(obj.name)

\* the positions of the summary line in the output
SummaryLines == {i \in 1..Len(out) : out[i].kind = "summary"}

\* C12: a run whose two loads succeeded prints exactly one summary line, once
\* every write attempt has been made, with -dryrun or without and also when
\* writes failed; the error for failed writes comes after the summary line.
C12_OneSummaryAfterWrites ==
    /\ Cardinality(SummaryLines) <= 1
    /\ SummaryLines # {} =>
          /\ BothLoadsOk
          /\ pc \in {"return", "exit"}
          /\ todo = {} /\ curFiles = <<>>
          /\ filesToUpdate \subseteq Attempted
    /\ (pc \in {"return", "exit"} /\ BothLoadsOk) =>
          Cardinality(SummaryLines) = 1
    /\ \A i, j \in 1..Len(out) :
          (out[i].kind = "error" /\ out[j].kind = "summary") => j < i
    /\ (pc = "exit" /\ BothLoadsOk /\ FailedWrites # {}) =>
          /\ Len(out) >= 2
          /\ out[Len(out)].kind = "error"
          /\ out[Len(out) - 1].kind = "summary"

\* a run with -dryrun in which a write failed: summary line, then the error
C12_Witness ==
    /\ pc = "exit"
    /\ conf.dryRun
    /\ FailedWrites # {}
    /\ out[Len(out) - 1].kind = "summary"
    /\ out[Len(out)].kind = "error"

\* the files holding at least one identifier whose text was changed
TouchedFiles == {id.file : id \in {i \in DOMAIN astName : astName[i] # i.name}}

\* C13: the files a write is attempted for are the touched files, those with
\* a renamed definition or use site: when runMain returns the two sets are
\* equal, the touched-file count of the summary is the number of write
\* attempts, and a file without a renamed occurrence is never written.
C13_WritesAreTouchedFiles ==
    /\ Attempted \subseteq TouchedFiles
    /\ Renamed => filesToUpdate = TouchedFiles
    /\ \A id \in DOMAIN disk :
          id.file \notin TouchedFiles => disk[id] = id.name
    /\ (pc \in {"return", "exit"} /\ BothLoadsOk) =>
          /\ Attempted = TouchedFiles
          /\ Len(writes) = Cardinality(TouchedFiles)
          /\ \A i \in SummaryLines : out[i].nfiles = Len(writes)

\* B imports the target and was loaded, holds no renamed identifier and was
\* not written, while a.go was renamed and written
C13_Witness ==
    /\ pc = "exit"
    /\ "B" \in globalProg.Imported
    /\ "b.go" \notin Attempted
    /\ "a.go" \in Attempted
    /\ "a.go" \in TouchedFiles

\* a file of package p holds a use site bound to the declaration of obj
HoldsUseOf(p, obj) ==
    \E u \in UseIdents(ws) :
       u.file \in FileSet(p) /\ u.pkg = obj.pkg /\ u.name = obj.name

====
